---- MODULE Spec2Model ----
(***************************************************************************)
(* Model of extract_curl_args.py: the extraction of cURL's option table    *)
(* from one revision of the C source (get_aliases), the per-snapshot       *)
(* normalisation pipeline (add_names, simplify_desc, group_same, add___no, *)
(* special_case_names), and the reconciliation of the normalised           *)
(* snapshots over the commit history (consecutive_runs, find_deleted).     *)
(*                                                                         *)
(* Strings the code takes apart are sequences of tokens: a letter is the   *)
(* sequence of its characters, a long name is the sequence of its prefix   *)
(* tokens and its stem (<<"no-", "verbose">> is "no-verbose"), so that     *)
(* len(), strip(), startswith(), removeprefix() and "no-" + lname are      *)
(* computed and not looked up.  A Python dict with optional keys is a      *)
(* record whose DOMAIN holds exactly the keys present.                     *)
(***************************************************************************)
EXTENDS Integers, Sequences, FiniteSets, TLC

VARIABLES
    pc,                          \* position of the modelled call or of __main__
    raised,                      \* the exception that ended the run, or NoError
    seq, runs,                   \* consecutive_runs: argument and return value
    given,                       \* the alias list as passed to a normaliser stage
    aliases,                     \* the alias list / dict being built or mutated
    file_contents,               \* get_aliases: the lines consumed by this call
    returned,                    \* get_aliases: the list it returned
    warned_repeats,              \* module-level set of lnames already warned about
    warnings,                    \* every warnings.warn issued, in order
    explicit_aliases_over_time,  \* the extracted timeline, as read so far
    aliases_over_time,           \* the normalised timeline
    after_implicit_no,           \* __main__'s cutover flag
    long_aliases, short_aliases  \* find_deleted's two results

vars == <<pc, raised, seq, runs, given, aliases, file_contents, returned,
          warned_repeats, warnings, explicit_aliases_over_time,
          aliases_over_time, after_implicit_no, long_aliases, short_aliases>>

NoError == [type |-> "none"]

(***************************************************************************)
(* Generic helpers.                                                        *)
(***************************************************************************)
Range(s) == {s[i] : i \in 1..Len(s)}

Last(s) == s[Len(s)]

Has(d, k) == k \in DOMAIN d

\* dict.get(k, default)
Get(d, k, default) == IF Has(d, k) THEN d[k] ELSE default

\* d[k] = v: an existing key keeps its place, a new key is added
Put(d, k, v) == [x \in DOMAIN d \cup {k} |-> IF x = k THEN v ELSE d[x]]

\* del d[k] / {k: v for k, v in d.items() if k != drop}
Drop(d, k) == [x \in DOMAIN d \ {k} |-> d[x]]

\* list.insert(i, x) with a 0-based i: an index past the end appends
Insert(s, i, x) ==
    LET at == IF i > Len(s) THEN Len(s) ELSE i
    IN  SubSeq(s, 1, at) \o <<x>> \o SubSeq(s, at + 1, Len(s))

\* every sequence over S of length 0..n
SeqsUpTo(S, n) == UNION {[1..k -> S] : k \in 0..n}

(***************************************************************************)
(* consecutive_runs                                                        *)
(***************************************************************************)
MaxLen == 4
MaxIdx == 4

OverlapError == [type |-> "ValueError", msg |-> "overlapping range"]

\* the loop over zip(seq, seq[1:]); i is the 1-based position of cur
RECURSIVE ScanRuns(_, _, _, _)
ScanRuns(s, i, run, rs) ==
    IF i > Len(s)
    THEN [raised |-> NoError, runs |-> Append(rs, <<run[1], Last(run)>>)]
    ELSE LET prev == s[i - 1]
             cur  == s[i]
         IN  IF cur - prev = 1
             THEN ScanRuns(s, i + 1, Append(run, cur), rs)
             ELSE IF cur - prev = 0
             THEN [raised |-> OverlapError, runs |-> <<>>]
             ELSE ScanRuns(s, i + 1, <<cur>>, Append(rs, <<run[1], Last(run)>>))

\* mutant: the scan starts one pair late, so the first index is never
\* compared with the second
consecutive_runs_skipfirst(s) ==
    IF s = <<>>
    THEN [raised |-> NoError, runs |-> <<>>]
    ELSE IF Len(s) = 1
    THEN ScanRuns(s, 2, <<s[1]>>, <<>>)
    ELSE ScanRuns(s, 3, <<s[1], s[2]>>, <<>>)

consecutive_runs(s) ==
    IF s = <<>>
    THEN [raised |-> NoError, runs |-> <<>>]
    ELSE ScanRuns(s, 2, <<s[1]>>, <<>>)

NonDecreasing(s) == \A i \in 1..(Len(s) - 1) : s[i] <= s[i + 1]

IndexLists == {s \in SeqsUpTo(0..MaxIdx, MaxLen) : NonDecreasing(s)}

\* the variables a specification does not use keep these values
IdleRuns == seq = <<>> /\ runs = <<>>

IdleStage == given = <<>>

IdleExtract ==
    /\ file_contents = <<>> /\ returned = <<>>
    /\ warned_repeats = {} /\ warnings = <<>>

IdleMain ==
    /\ explicit_aliases_over_time = <<>> /\ aliases_over_time = <<>>
    /\ after_implicit_no = FALSE
    /\ long_aliases = <<>> /\ short_aliases = <<>>

InitRuns ==
    /\ pc = "call"
    /\ seq \in IndexLists
    /\ raised = NoError /\ runs = <<>> /\ aliases = <<>>
    /\ IdleStage /\ IdleExtract /\ IdleMain

CallConsecutiveRuns ==
    /\ pc = "call"
    /\ LET r == consecutive_runs(seq)
       IN  /\ runs' = r.runs
           /\ raised' = r.raised
    /\ pc' = "done"
    /\ UNCHANGED <<seq, given, aliases, file_contents, returned, warned_repeats,
                   warnings, explicit_aliases_over_time, aliases_over_time,
                   after_implicit_no, long_aliases, short_aliases>>

NextRuns == CallConsecutiveRuns

SpecRuns == InitRuns /\ [][NextRuns]_vars

\* the set of indices a list of runs covers
Covered(rs) == UNION {rs[i][1]..rs[i][2] : i \in 1..Len(rs)}

\* C3: on a non-decreasing index list consecutive_runs raises the overlap
\* error exactly when an index is repeated; otherwise its runs are in
\* increasing order, maximal, cover exactly the given indices, and each
\* starts at least 2 above the end of the one before; no indices, no runs.
RunsArePartition ==
    pc = "done" =>
        /\ (raised = OverlapError) <=> (\E i \in 1..(Len(seq) - 1) : seq[i] = seq[i + 1])
        /\ raised \in {NoError, OverlapError}
        /\ raised = NoError =>
            /\ Covered(runs) = Range(seq)
            /\ \A i \in 1..Len(runs) :
                /\ runs[i][1] <= runs[i][2]
                /\ (runs[i][1] - 1) \notin Range(seq)
                /\ (runs[i][2] + 1) \notin Range(seq)
            /\ \A i \in 1..(Len(runs) - 1) : runs[i + 1][1] >= runs[i][2] + 2
            /\ (seq = <<>> => runs = <<>>)

\* witness of C3: a list that yields several runs, one of them longer than
\* a single index
RunsWitness ==
    /\ pc = "done" /\ raised = NoError
    /\ Len(runs) >= 2
    /\ \E i \in 1..Len(runs) : runs[i][1] < runs[i][2]

(***************************************************************************)
(* get_aliases, and the check its caller get_explicit_aliases_over_time    *)
(* makes on what it returns.  A line is a sequence of tokens: single       *)
(* characters for punctuation, blanks and the characters of a letter, and  *)
(* whole words for the rest.                                               *)
(***************************************************************************)
WS == " "
QUOTE == "\""
COMMENT == "/*"
OPTS_START == "struct LongShort aliases[]= {"
OPTS_END == <<"}", ";">>

BOOL_TYPES == {"FALSE", "ARG_BOOL", "ARG_NONE"}
STR_TYPES == {"TRUE", "ARG_STRING", "ARG_FILENAME"}
DESC_TYPES == BOOL_TYPES \cup STR_TYPES

\* str.lstrip(chars) / str.rstrip(chars) / str.strip(chars)
RECURSIVE LStrip(_, _)
LStrip(s, chars) ==
    IF s # <<>> /\ s[1] \in chars THEN LStrip(Tail(s), chars) ELSE s

RECURSIVE RStrip(_, _)
RStrip(s, chars) ==
    IF s # <<>> /\ Last(s) \in chars
    THEN RStrip(SubSeq(s, 1, Len(s) - 1), chars)
    ELSE s

Strip(s, chars) == RStrip(LStrip(s, chars), chars)

\* str.strip() with no argument
StripWs(s) == Strip(s, {WS})

\* str.split(sep): the pieces between the separators, empty pieces kept
RECURSIVE Split(_, _)
Split(s, sep) ==
    IF \A i \in 1..Len(s) : s[i] # sep
    THEN <<s>>
    ELSE LET k == CHOOSE i \in 1..Len(s) :
                      s[i] = sep /\ \A j \in 1..(i - 1) : s[j] # sep
         IN  <<SubSeq(s, 1, k - 1)>> \o Split(SubSeq(s, k + 1, Len(s)), sep)

StartsWith(s, t) == Len(s) >= Len(t) /\ SubSeq(s, 1, Len(t)) = t

EndsWith(s, t) == Len(s) >= Len(t) /\ SubSeq(s, Len(s) - Len(t) + 1, Len(s)) = t

UnpackError == [type |-> "ValueError", msg |-> "unpack"]
UnknownDesc(desc) == [type |-> "ValueError", msg |-> "unknown desc", desc |-> desc]
LetterError(lname) ==
    [type |-> "ValueError", msg |-> "letter form must be 1 or 2 characters long",
     lname |-> lname]
ExtractError == [type |-> "ValueError", msg |-> "Failed to extract params"]

\* `1 > len(letter) > 2`: Python chains the two comparisons with `and`
LetterLengthRejected(letter) == 1 > Len(letter) /\ Len(letter) > 2

\* lines 129-141: one struct-literal entry to an alias, or the error raised
ParseEntry(line) ==
    LET body   == Strip(StripWs(Split(line, COMMENT)[1]), {"{", "}", ","})
        fields == Split(body, ",")
    IN  IF Len(fields) # 3
        THEN [raised |-> UnpackError]
        ELSE LET letter == Strip(StripWs(fields[1]), {QUOTE})
                 lname  == Strip(StripWs(fields[2]), {QUOTE})
                 desc   == StripWs(fields[3])
             IN  IF ~(Len(desc) = 1 /\ desc[1] \in DESC_TYPES)
                 THEN [raised |-> UnknownDesc(desc)]
                 ELSE IF LetterLengthRejected(letter)
                 THEN [raised |-> LetterError(lname)]
                 ELSE [raised |-> NoError,
                       alias  |-> [letter |-> letter, lname |-> lname,
                                   desc |-> desc[1]]]

\* the dict `aliases`, keyed by lname, as the list of its values in
\* insertion order
DictHas(d, lname) == \E i \in 1..Len(d) : d[i].lname = lname

DictGet(d, lname) == d[CHOOSE i \in 1..Len(d) : d[i].lname = lname]

DictPut(d, alias) ==
    IF DictHas(d, alias.lname)
    THEN [i \in 1..Len(d) |-> IF d[i].lname = alias.lname THEN alias ELSE d[i]]
    ELSE Append(d, alias)

\* mutant: the set of names already warned about is not consulted
ShouldWarn_everytime(d, alias, warned) ==
    DictHas(d, alias.lname) /\ DictGet(d, alias.lname) # alias

\* lines 143-144
ShouldWarn(d, alias, warned) ==
    /\ DictHas(d, alias.lname) /\ DictGet(d, alias.lname) # alias
    /\ alias.lname \notin warned

\* the source lines the model feeds to get_aliases
EntryLine(lead, letter, lname, desc, trail) ==
    lead \o <<"{", QUOTE>> \o letter \o <<QUOTE, ",", WS, QUOTE>> \o lname
         \o <<QUOTE, ",", WS, desc, "}", ",">> \o trail

Lines == {
    <<"static", WS, "const", WS, OPTS_START>>,
    <<WS, WS, "}", ";">>,
    <<WS, WS, COMMENT, WS, "options", WS, "*/">>,
    EntryLine(<<WS, WS>>, <<"a">>, <<"foo">>, "FALSE", <<>>),
    EntryLine(<<WS, WS>>, <<"a">>, <<"foo">>, "TRUE", <<WS, COMMENT, WS, "main.c", WS, "*/">>),
    EntryLine(<<>>, <<"*", "b">>, <<"bar">>, "ARG_BOOL", <<>>),
    EntryLine(<<WS>>, <<>>, <<"bar">>, "ARG_STRING", <<>>),
    EntryLine(<<WS>>, <<"x", "y", "z">>, <<"foo">>, "FALSE", <<>>),
    EntryLine(<<WS>>, <<"c">>, <<"bar">>, "ARG_MAYBE", <<>>)
}

MaxLines == 4

InitExtract ==
    /\ pc = "idle"
    /\ raised = NoError /\ aliases = <<>>
    /\ IdleExtract /\ IdleRuns /\ IdleStage /\ IdleMain

\* line 173: the next commit's file is handed to get_aliases
CallGetAliases ==
    /\ pc \in {"idle", "returned"}
    /\ pc' = "seek"
    /\ aliases' = <<>>
    /\ file_contents' = <<>>
    /\ returned' = <<>>
    /\ UNCHANGED <<raised, seq, runs, given, warned_repeats, warnings,
                   explicit_aliases_over_time, aliases_over_time,
                   after_implicit_no, long_aliases, short_aliases>>

\* lines 118-120: skip to the line that opens the table
SeekLine ==
    /\ pc = "seek"
    /\ Len(file_contents) < MaxLines
    /\ \E line \in Lines :
        /\ file_contents' = Append(file_contents, line)
        /\ pc' = IF OPTS_START \in Range(line) THEN "scan" ELSE "seek"
    /\ UNCHANGED <<raised, seq, runs, given, aliases, returned, warned_repeats,
                   warnings, explicit_aliases_over_time, aliases_over_time,
                   after_implicit_no, long_aliases, short_aliases>>

\* line 152 and lines 174-177: the list is returned, and an empty one is an error
ReturnAliases ==
    /\ returned' = aliases
    /\ raised' = IF aliases = <<>> THEN ExtractError ELSE NoError
    /\ pc' = IF aliases = <<>> THEN "raised" ELSE "returned"
    /\ UNCHANGED <<aliases, warned_repeats, warnings>>

\* lines 121-150: one line of the table
ScanLine ==
    /\ pc = "scan"
    /\ Len(file_contents) < MaxLines
    /\ \E text \in Lines :
        /\ file_contents' = Append(file_contents, text)
        /\ LET line == StripWs(text)
           IN  IF EndsWith(line, OPTS_END)
               THEN ReturnAliases
               ELSE IF ~StartsWith(StripWs(line), <<"{">>)
               THEN UNCHANGED <<pc, raised, aliases, returned, warned_repeats, warnings>>
               ELSE LET p == ParseEntry(line)
                    IN  IF p.raised # NoError
                        THEN /\ raised' = p.raised
                             /\ pc' = "raised"
                             /\ UNCHANGED <<aliases, returned, warned_repeats, warnings>>
                        ELSE /\ IF ShouldWarn(aliases, p.alias, warned_repeats)
                                THEN /\ warnings' = Append(warnings, p.alias.lname)
                                     /\ warned_repeats' = warned_repeats \cup {p.alias.lname}
                                ELSE UNCHANGED <<warnings, warned_repeats>>
                             /\ aliases' = DictPut(aliases, p.alias)
                             /\ UNCHANGED <<pc, raised, returned>>
    /\ UNCHANGED <<seq, runs, given, explicit_aliases_over_time, aliases_over_time,
                   after_implicit_no, long_aliases, short_aliases>>

\* either loop runs out of lines
EndOfFile ==
    /\ pc \in {"seek", "scan"}
    /\ ReturnAliases
    /\ UNCHANGED <<file_contents, seq, runs, given, explicit_aliases_over_time,
                   aliases_over_time, after_implicit_no, long_aliases, short_aliases>>

NextExtract == CallGetAliases \/ SeekLine \/ ScanLine \/ EndOfFile

SpecExtract == InitExtract /\ [][NextExtract]_vars

\* the positions of file_contents that get_aliases read as entries of the
\* table: after the line holding OPTS_START, starting with "{"
IsStartLine(text) == OPTS_START \in Range(text)

EntryPositions(fc) ==
    {i \in 1..Len(fc) :
        /\ \E s \in 1..(i - 1) : IsStartLine(fc[s])
        /\ ~EndsWith(StripWs(fc[i]), OPTS_END)
        /\ StartsWith(StripWs(fc[i]), <<"{">>)}

\* the three fields of an entry as the stripped text between its commas
FieldOf(text, n) ==
    Strip(StripWs(Split(Strip(StripWs(Split(StripWs(text), COMMENT)[1]),
                              {"{", "}", ","}), ",")[n]),
          {QUOTE})

WellFormed(text) == Len(FieldOf(text, 3)) = 1 /\ FieldOf(text, 3)[1] \in DESC_TYPES

AliasOf(text) ==
    [letter |-> FieldOf(text, 1), lname |-> FieldOf(text, 2),
     desc |-> FieldOf(text, 3)[1]]

\* the positions at which a long name is defined differently from its
\* previous definition in the same file
Redefinitions(fc, lname) ==
    {j \in EntryPositions(fc) :
        /\ WellFormed(fc[j]) /\ FieldOf(fc[j], 2) = lname
        /\ \E i \in EntryPositions(fc) :
            /\ i < j /\ FieldOf(fc[i], 2) = lname
            /\ \A k \in EntryPositions(fc) : (i < k /\ k < j) => FieldOf(fc[k], 2) # lname
            /\ AliasOf(fc[i]) # AliasOf(fc[j])}

Differing(fc) ==
    {FieldOf(fc[j], 2) : j \in {i \in EntryPositions(fc) :
                                    Redefinitions(fc, FieldOf(fc[i], 2)) # {}}}

ReturnedIsLastDefinitions ==
    pc = "returned" =>
        LET E == EntryPositions(file_contents)
            names == {FieldOf(file_contents[i], 2) : i \in E}
        IN  /\ Len(returned) = Cardinality(names)
            /\ \A l \in names :
                LET last == CHOOSE i \in E :
                                /\ FieldOf(file_contents[i], 2) = l
                                /\ \A k \in E : FieldOf(file_contents[k], 2) = l => k <= i
                IN  \E n \in 1..Len(returned) :
                        /\ returned[n] = AliasOf(file_contents[last])
                        /\ \A m \in 1..Len(returned) :
                               returned[m].lname = l => m = n

WarnedAtMostOnce ==
    /\ \A i, j \in 1..Len(warnings) : warnings[i] = warnings[j] => i = j
    /\ Differing(file_contents) \subseteq Range(warnings)

WarnedWhenFirstMet ==
    warnings' # warnings =>
        \E l \in Differing(file_contents') :
            /\ warnings' = Append(warnings, l)
            /\ l \notin Range(warnings)
            /\ l \notin Differing(file_contents)

\* C7: every list get_aliases returns holds one record per long name, that
\* of its last definition in the file; a long name is warned about at most
\* once in the run, at the step that first meets a definition differing
\* from the recorded one, and every such name has been warned about.
LastWinsWarnOnce ==
    /\ [](ReturnedIsLastDefinitions /\ WarnedAtMostOnce)
    /\ [][WarnedWhenFirstMet]_vars

\* witness of C7: a file that redefines the same long name twice, each time
\* differently, has been returned with a single warning for it on record
LastWinsWitness ==
    /\ pc = "returned"
    /\ \E l \in Differing(file_contents) :
        /\ Cardinality(Redefinitions(file_contents, l)) >= 2
        /\ Cardinality({i \in 1..Len(warnings) : warnings[i] = l}) = 1

\* C6: an entry whose letter, stripped of blanks and quotes, is not 1 or 2
\* characters long ends the call with a parse error, so no list is returned
\* for its file.
LetterLengthEnforced ==
    \A i \in EntryPositions(file_contents) :
        (WellFormed(file_contents[i])
            /\ Len(FieldOf(file_contents[i], 1)) \notin {1, 2})
        => (pc = "raised" /\ raised.type = "ValueError")

(***************************************************************************)
(* The normaliser stages.  An alias is a record with the keys letter,      *)
(* lname and desc, and name and expand when the dict has them.             *)
(***************************************************************************)
NO == "no-"
DISABLE == "disable-"

\* a long name that is a single word
W(word) == <<word>>

\* the table's None: no long name is this one
NONE == <<"<None>">>

DUPES ==
    (<<W("krb"), W("krb4")>> :> W("krb"))
    @@ (<<W("http-request"), W("request")>> :> W("request"))
    @@ (<<W("ftp-ascii"), W("use-ascii")>> :> W("use-ascii"))
    @@ (<<W("ftp-port"), W("ftpport")>> :> W("ftp-port"))
    @@ (<<W("socks"), W("socks5")>> :> W("socks5"))
    @@ (<<W("socks"), W("socks5ip")>> :> W("socks5"))
    @@ (<<W("ftp-ssl"), W("ssl")>> :> W("ssl"))
    @@ (<<W("ftp-ssl-reqd"), W("ssl-reqd")>> :> W("ssl-reqd"))
    @@ (<<W("proxy-service-name"), W("socks5-gssapi-service")>> :> W("proxy-service-name"))

NAME_SPECIAL_CASES ==
    (W("ftp-ssl") :> W("ssl"))
    @@ (<<NO, "ftp-ssl">> :> W("ssl"))
    @@ (W("ftp-ssl-reqd") :> W("ssl-reqd"))
    @@ (<<NO, "ftp-ssl-reqd">> :> W("ssl-reqd"))
    @@ (W("ftp-ascii") :> W("use-ascii"))
    @@ (W("ftpport") :> W("ftp-port"))
    @@ (W("krb4") :> W("krb"))
    @@ (W("socks5-gssapi-service") :> W("proxy-service-name"))
    @@ (W("socks5") :> NONE)

\* Python's order on str, for the words of the model: the position of a
\* word in this list, which is sorted as sorted() sorts its text
WordOrder ==
    <<"buffer", "data", "disable-", "ftp-ascii", "ftp-port", "ftp-ssl",
      "ftp-ssl-reqd", "ftpport", "http-request", "http1.0", "krb", "krb4",
      "no-", "proxy-service-name", "request", "socks", "socks5",
      "socks5-gssapi-service", "socks5ip", "ssl", "ssl-reqd", "use-ascii",
      "verbose", "version">>

WordRank(w) == CHOOSE i \in 1..Len(WordOrder) : WordOrder[i] = w

\* a < b on long names: the first differing word decides, a proper prefix
\* is smaller
RECURSIVE StrLess(_, _)
StrLess(a, b) ==
    IF b = <<>> THEN FALSE
    ELSE IF a = <<>> THEN TRUE
    ELSE IF a[1] = b[1] THEN StrLess(Tail(a), Tail(b))
    ELSE WordRank(a[1]) < WordRank(b[1])

\* sorted(names): insertion into the sorted prefix, equal names kept in order
RECURSIVE Sorted(_)
Sorted(names) ==
    IF names = <<>> THEN <<>>
    ELSE LET rest == Sorted(SubSeq(names, 1, Len(names) - 1))
             x    == Last(names)
             k    == Cardinality({i \in 1..Len(rest) : ~StrLess(x, rest[i])})
         IN  SubSeq(rest, 1, k) \o <<x>> \o SubSeq(rest, k + 1, Len(rest))

\* lines 181-188
AddName(alias) ==
    LET a1 == IF alias.desc \in BOOL_TYPES /\ StartsWith(alias.lname, <<NO>>)
              THEN Put(alias, "name", Tail(alias.lname))
              ELSE alias
    IN  IF alias.desc \in BOOL_TYPES /\ StartsWith(alias.lname, <<DISABLE>>)
        THEN Put(a1, "name", Tail(alias.lname))
        ELSE a1

add_names(as) == [i \in 1..Len(as) |-> AddName(as[i])]

\* mutant: FALSE is read as ARG_BOOL whatever the cutover flag says
SimplifyDesc_noflag(desc, implicit_no) ==
    CASE desc = "FALSE" -> "ARG_BOOL"
      [] desc = "TRUE" -> "ARG_STRING"
      [] desc = "ARG_FILENAME" -> "ARG_STRING"
      [] OTHER -> desc

\* lines 191-199
SimplifyDesc(desc, implicit_no) ==
    CASE desc = "FALSE" -> IF implicit_no THEN "ARG_BOOL" ELSE "ARG_NONE"
      [] desc = "TRUE" -> "ARG_STRING"
      [] desc = "ARG_FILENAME" -> "ARG_STRING"
      [] OTHER -> desc

simplify_desc(as, implicit_no) ==
    [i \in 1..Len(as) |-> [as[i] EXCEPT !.desc = SimplifyDesc(@, implicit_no)]]

\* lines 205-207: the letters in the order the dict seen_letters first met
\* them, and the long names recorded under one letter
RECURSIVE SeenLetters(_)
SeenLetters(as) ==
    IF as = <<>> THEN <<>>
    ELSE LET before == SeenLetters(SubSeq(as, 1, Len(as) - 1))
         IN  IF Last(as).letter \in Range(before)
             THEN before
             ELSE Append(before, Last(as).letter)

RECURSIVE LnamesOf(_, _)
LnamesOf(as, letter) ==
    IF as = <<>> THEN <<>>
    ELSE IF as[1].letter = letter
    THEN <<as[1].lname>> \o LnamesOf(Tail(as), letter)
    ELSE LnamesOf(Tail(as), letter)

SameLetterError(lnames, letter) ==
    [type |-> "ValueError", msg |-> "same letter", lnames |-> lnames,
     letter |-> letter]

\* mutant: only three or more long names under one letter count as a clash
IsShared_three(lnames) == Len(lnames) > 2

\* line 211
IsShared(lnames) == Len(lnames) > 1

\* lines 208-217: dup_aliases as the list of <<letter, winner>> pairs, or the
\* error of the first letter whose long names DUPES does not know
RECURSIVE DupAliases(_, _, _)
DupAliases(as, letters, found) ==
    IF letters = <<>>
    THEN [raised |-> NoError, dup_aliases |-> found]
    ELSE LET letter == letters[1]
             lnames == Sorted(LnamesOf(as, letter))
         IN  IF IsShared(lnames)
             THEN IF lnames \notin DOMAIN DUPES
                  THEN [raised |-> SameLetterError(lnames, letter),
                        dup_aliases |-> found]
                  ELSE DupAliases(as, Tail(letters),
                                  Append(found, <<letter, DUPES[lnames]>>))
             ELSE DupAliases(as, Tail(letters), found)

\* lines 202-224
group_same(as) ==
    LET d == DupAliases(as, SeenLetters(as), <<>>)
        winner(letter) ==
            (CHOOSE i \in 1..Len(d.dup_aliases) : d.dup_aliases[i][1] = letter)
        Named(alias) ==
            IF \E i \in 1..Len(d.dup_aliases) : d.dup_aliases[i][1] = alias.letter
            THEN LET main == d.dup_aliases[winner(alias.letter)][2]
                 IN  IF alias.lname # main THEN Put(alias, "name", main) ELSE alias
            ELSE alias
    IN  IF d.raised # NoError
        THEN [raised |-> d.raised, aliases |-> as]
        ELSE [raised |-> NoError, aliases |-> [i \in 1..Len(as) |-> Named(as[i])]]

\* lines 236-239: the negated sibling of a boolean alias
NoAlias(alias) ==
    LET renamed == [alias EXCEPT !.lname = <<NO>> \o @]
        named   == IF Has(renamed, "name")
                   THEN renamed
                   ELSE Put(renamed, "name", alias.lname)
    IN  Put(named, "expand", FALSE)

\* lines 229-240: to_insert, the <<index, sibling>> pairs in list order
\* (0-based index of the original, plus one)
RECURSIVE ToInsert(_, _)
ToInsert(as, idx) ==
    IF idx >= Len(as) THEN <<>>
    ELSE IF as[idx + 1].desc = "ARG_BOOL"
    THEN <<<<idx + 1, NoAlias(as[idx + 1])>>>> \o ToInsert(as, idx + 1)
    ELSE ToInsert(as, idx + 1)

\* lines 241-242: the insertions, one after the other, each at the index
\* computed before any of them was made
RECURSIVE InsertAll(_, _)
InsertAll(as, to_insert) ==
    IF to_insert = <<>> THEN as
    ELSE InsertAll(Insert(as, to_insert[1][1], to_insert[1][2]), Tail(to_insert))

\* lines 227-244
add___no(as) ==
    LET unified == [i \in 1..Len(as) |->
                       IF as[i].desc = "ARG_NONE"
                       THEN [as[i] EXCEPT !.desc = "ARG_BOOL"]
                       ELSE as[i]]
    IN  InsertAll(unified, ToInsert(as, 0))

\* lines 247-253
SpecialCaseName(alias) ==
    IF alias.lname \in DOMAIN NAME_SPECIAL_CASES
    THEN IF NAME_SPECIAL_CASES[alias.lname] = NONE
         THEN Drop(alias, "name")
         ELSE Put(alias, "name", NAME_SPECIAL_CASES[alias.lname])
    ELSE alias

special_case_names(as) == [i \in 1..Len(as) |-> SpecialCaseName(as[i])]

(***************************************************************************)
(* The pipeline of lines 476-486 on one snapshot, stage by stage.  The     *)
(* snapshot is a list get_aliases can return: at least one alias, no long  *)
(* name twice.                                                             *)
(***************************************************************************)
MaxAliases == 3

Raw(letter, lname, desc) == [letter |-> letter, lname |-> lname, desc |-> desc]

StageLetters == {<<"a">>, <<"b">>}

StageOptions ==
    {<<W("ftp-ssl"), "FALSE">>, <<W("ssl"), "ARG_BOOL">>, <<W("socks"), "TRUE">>,
     <<W("socks5ip"), "ARG_FILENAME">>, <<<<NO, "buffer">>, "ARG_BOOL">>}

StagePalette == {Raw(l, o[1], o[2]) : l \in StageLetters, o \in StageOptions}

DistinctLnames(as) ==
    \A i, j \in 1..Len(as) : as[i].lname = as[j].lname => i = j

StageSnapshots ==
    {as \in SeqsUpTo(StagePalette, MaxAliases) : as # <<>> /\ DistinctLnames(as)}

InitStages ==
    /\ pc = "add_names"
    /\ aliases \in StageSnapshots
    /\ given = aliases
    /\ after_implicit_no \in BOOLEAN
    /\ raised = NoError
    /\ explicit_aliases_over_time = <<>> /\ aliases_over_time = <<>>
    /\ long_aliases = <<>> /\ short_aliases = <<>>
    /\ IdleRuns /\ IdleExtract

StageUnchanged ==
    UNCHANGED <<seq, runs, file_contents, returned, warned_repeats, warnings,
                explicit_aliases_over_time, aliases_over_time, after_implicit_no,
                long_aliases, short_aliases>>

StageAddNames ==
    /\ pc = "add_names"
    /\ given' = aliases
    /\ aliases' = add_names(aliases)
    /\ pc' = "simplify_desc"
    /\ UNCHANGED raised
    /\ StageUnchanged

StageSimplifyDesc ==
    /\ pc = "simplify_desc"
    /\ given' = aliases
    /\ aliases' = simplify_desc(aliases, after_implicit_no)
    /\ pc' = "group_same"
    /\ UNCHANGED raised
    /\ StageUnchanged

StageGroupSame ==
    /\ pc = "group_same"
    /\ given' = aliases
    /\ LET r == group_same(aliases)
       IN  /\ aliases' = r.aliases
           /\ raised' = r.raised
           /\ pc' = IF r.raised = NoError THEN "add___no" ELSE "raised"
    /\ StageUnchanged

StageAddNo ==
    /\ pc = "add___no"
    /\ given' = aliases
    /\ aliases' = add___no(aliases)
    /\ pc' = "special_case_names"
    /\ UNCHANGED raised
    /\ StageUnchanged

StageSpecialCaseNames ==
    /\ pc = "special_case_names"
    /\ given' = aliases
    /\ aliases' = special_case_names(aliases)
    /\ pc' = "done"
    /\ UNCHANGED raised
    /\ StageUnchanged

NextStages ==
    \/ StageAddNames
    \/ StageSimplifyDesc
    \/ StageGroupSame
    \/ StageAddNo
    \/ StageSpecialCaseNames

SpecStages == InitStages /\ [][NextStages]_vars

\* group_same has just run on `given`
AfterGroupSame == pc = "add___no" \/ (pc = "raised" /\ raised.msg = "same letter")

SharedLetters(as) ==
    {as[i].letter : i \in {k \in 1..Len(as) :
                              \E j \in 1..Len(as) : j # k /\ as[j].letter = as[k].letter}}

NamesUnder(as, letter) == {as[i].lname : i \in {k \in 1..Len(as) : as[k].letter = letter}}

KnownPair(names) == \E key \in DOMAIN DUPES : Range(key) = names

CanonicalWinner(names) == DUPES[CHOOSE key \in DOMAIN DUPES : Range(key) = names]

ClashingLetters(as) ==
    {l \in SharedLetters(as) : ~KnownPair(NamesUnder(as, l))}

SiblingFollowsOriginal ==
    (pc = "special_case_names") =>
        \A i \in 1..Len(given) :
            given[i].desc = "ARG_BOOL" =>
                LET sibling ==
                        Put(Put([given[i] EXCEPT !.lname = <<NO>> \o @], "name",
                                Get(given[i], "name", given[i].lname)),
                            "expand", FALSE)
                IN  /\ Cardinality({j \in 1..Len(aliases) : aliases[j] = sibling}) = 1
                    /\ \E j \in 1..(Len(aliases) - 1) :
                        /\ aliases[j] = given[i]
                        /\ aliases[j + 1] = sibling

(***************************************************************************)
(* find_deleted.  A timeline is a list of [commit, aliases]; an entry of   *)
(* the dicts long_args and short_args is [key, commits], the list being    *)
(* in the dict's insertion order.  Python's None is the empty tuple and a  *)
(* value that may be None is a 1-tuple.                                    *)
(***************************************************************************)
None == <<>>
Some(x) == <<x>>

\* line 280-281: to_hash, from the 0-based commit index
ToHash(timeline) == [i \in 0..(Len(timeline) - 1) |-> timeline[i + 1].commit.hash]

\* lines 289-292
LongOptKey(alias) == Drop(alias, "letter")

ShortOptKey(alias) == <<alias.letter, Get(alias, "name", alias.lname)>>

\* lines 294-296
IsShortArg(alias) == Len(alias.letter) = 1 /\ ~Has(alias, "name")

\* dict.setdefault(key, []).append(commit_idx)
Record(args, key, commit_idx) ==
    IF \E i \in 1..Len(args) : args[i].key = key
    THEN [i \in 1..Len(args) |->
             IF args[i].key = key
             THEN [args[i] EXCEPT !.commits = Append(@, commit_idx)]
             ELSE args[i]]
    ELSE Append(args, [key |-> key, commits |-> <<commit_idx>>])

\* lines 286-297: i and j are the 1-based positions of the snapshot and of
\* the alias in it; acc holds both dicts
RECURSIVE Collect(_, _, _, _)
Collect(timeline, i, j, acc) ==
    IF i > Len(timeline) THEN acc
    ELSE IF j > Len(timeline[i].aliases) THEN Collect(timeline, i + 1, 1, acc)
    ELSE LET alias == timeline[i].aliases[j]
             long  == Record(acc.long_args, LongOptKey(alias), i - 1)
             short == IF IsShortArg(alias)
                      THEN Record(acc.short_args, ShortOptKey(alias), i - 1)
                      ELSE acc.short_args
         IN  Collect(timeline, i, j + 1, [long_args |-> long, short_args |-> short])

\* mutant: the entries are taken in the order of _long_args, sorted by lname
RECURSIVE SortedByLname(_)
SortedByLname(args) ==
    IF args = <<>> THEN <<>>
    ELSE LET rest == SortedByLname(SubSeq(args, 1, Len(args) - 1))
             x    == Last(args)
             k    == Cardinality({i \in 1..Len(rest) :
                                     ~StrLess(x.key.lname, rest[i].key.lname)})
         IN  SubSeq(rest, 1, k) \o <<x>> \o SubSeq(rest, k + 1, Len(rest))

LongArgsItems_sorted(args) == SortedByLname(args)

\* line 349: long_args.items(), the dict's insertion order
LongArgsItems(args) == args

\* lines 299-300: the first key whose index list consecutive_runs rejects
\* ends the call
RunsError(args) ==
    IF \E i \in 1..Len(args) : consecutive_runs(args[i].commits).raised # NoError
    THEN consecutive_runs(
             args[CHOOSE i \in 1..Len(args) :
                      /\ consecutive_runs(args[i].commits).raised # NoError
                      /\ \A k \in 1..(i - 1) :
                             consecutive_runs(args[k].commits).raised = NoError
                 ].commits).raised
    ELSE NoError

\* mutant: the end of a lifetime is the run's last index itself
Lifetime_lastseen(run, n) ==
    <<IF run[1] > 0 THEN Some(run[1]) ELSE None,
      IF (run[2] + 1) < n THEN Some(run[2]) ELSE None>>

\* mutant: a run that ends one snapshot before the last one counts as open
Lifetime_openearly(run, n) ==
    <<IF run[1] > 0 THEN Some(run[1]) ELSE None,
      IF (run[2] + 2) < n THEN Some(run[2] + 1) ELSE None>>

\* lines 351-354 and 379-382: n is len(aliases_over_time)
Lifetime(run, n) ==
    <<IF run[1] > 0 THEN Some(run[1]) ELSE None,
      IF (run[2] + 1) < n THEN Some(run[2] + 1) ELSE None>>

Lifetimes(commits, n) ==
    LET rs == consecutive_runs(commits).runs
    IN  [i \in 1..Len(rs) |-> Lifetime(rs[i], n)]

\* max(ends)
MaxEnd(ends) == CHOOSE m \in {e[1] : e \in ends} : \A e \in ends : e[1] <= m

\* lines 365-366 and 391-392: `None not in ends`
IsDeleted(lifetimes) == None \notin {lifetimes[i][2] : i \in 1..Len(lifetimes)}

DeletedAt(lifetimes, timeline) ==
    ToHash(timeline)[MaxEnd({lifetimes[i][2] : i \in 1..Len(lifetimes)})]

\* line 359: desc.removeprefix("ARG_").lower()
TypeOf(desc) ==
    CASE desc = "ARG_BOOL" -> "bool"
      [] desc = "ARG_STRING" -> "string"
      [] desc = "ARG_NONE" -> "none"
      [] desc = "ARG_FILENAME" -> "filename"
      [] desc = "TRUE" -> "true"
      [] desc = "FALSE" -> "false"

\* lines 349-375: one entry of new_long_args
NewLongArg(entry, timeline) ==
    LET lifetimes == Lifetimes(entry.commits, Len(timeline))
        typed     == Put(Drop(entry.key, "desc"), "type", TypeOf(entry.key.desc))
        named     == IF ~Has(typed, "name") /\ StripWs(typed.lname) # typed.lname
                     THEN Put(typed, "name", StripWs(typed.lname))
                     ELSE typed
        arg_data  == IF IsDeleted(lifetimes)
                     THEN Put(named, "deleted", DeletedAt(lifetimes, timeline))
                     ELSE named
    IN  <<arg_data.lname,
          [k \in DOMAIN arg_data \cap {"type", "name", "deleted", "expand"} |->
              arg_data[k]]>>

\* lines 386-394: arg_data of one entry of short_args
NewShortArg(entry, timeline) ==
    LET lifetimes == Lifetimes(entry.commits, Len(timeline))
        long      == IF entry.key[1] = <<"N">>
                     THEN <<NO>> \o entry.key[2]
                     ELSE entry.key[2]
    IN  IF IsDeleted(lifetimes)
        THEN [long |-> long, deleted |-> DeletedAt(lifetimes, timeline)]
        ELSE [long |-> long]

\* mutant: a later definition always replaces the stored one
Supersedes_always(stored) == TRUE

\* line 397: new_short_args[short].get("deleted")
Supersedes(stored) == Has(stored, "deleted") /\ stored.deleted # ""

\* lines 377-400: new_short_args, a dict keyed by the letter
RECURSIVE NewShortArgs(_, _, _, _)
NewShortArgs(short_args, i, timeline, acc) ==
    IF i > Len(short_args) THEN acc
    ELSE LET short    == short_args[i].key[1]
             arg_data == NewShortArg(short_args[i], timeline)
         IN  NewShortArgs(short_args, i + 1, timeline,
                 IF short \in DOMAIN acc
                 THEN IF Supersedes(acc[short]) THEN Put(acc, short, arg_data) ELSE acc
                 ELSE Put(acc, short, arg_data))

\* lines 279-401
find_deleted(timeline) ==
    LET args  == Collect(timeline, 1, 1, [long_args |-> <<>>, short_args |-> <<>>])
        items == LongArgsItems(args.long_args)
    IN  IF RunsError(args.long_args) # NoError
        THEN [raised |-> RunsError(args.long_args), long |-> <<>>, short |-> <<>>]
        ELSE IF RunsError(args.short_args) # NoError
        THEN [raised |-> RunsError(args.short_args), long |-> <<>>, short |-> <<>>]
        ELSE [raised |-> NoError,
              long   |-> [i \in 1..Len(items) |-> NewLongArg(items[i], timeline)],
              short  |-> NewShortArgs(args.short_args, 1, timeline, <<>>)]

(***************************************************************************)
(* __main__, lines 470-491: the loop that normalises the extracted         *)
(* timeline snapshot by snapshot, then find_deleted.  Each iteration takes *)
(* the next (commit, aliases) pair of explicit_aliases_over_time; the      *)
(* model keeps the pair as it was extracted.  A commit is its hash: the    *)
(* timestamp is not read after extraction.                                 *)
(***************************************************************************)
MaxSnapshots == 4

IMPLICIT_NO_COMMIT == "5abfdc0140df0977b02506d16796f616158bfe88"

\* the hashes of the other commits of the history, oldest first
History ==
    <<"ae1912cb0d494b48d514d937826c9fe83ec96c4d",
      "49b79b76316248d5233d08006234933913faaa3b",
      "913c3c8f5476bd7bc4d8d00509396bd4b525b8fc",
      "b1ea7e0a", "c0ffee11", "d15ea5e2", "e1ec7ed3", "f005ba11">>

Verbose == Raw(<<"v">>, W("verbose"), "FALSE")
Data == Raw(<<"d">>, W("data"), "TRUE")
Version == Raw(<<"v">>, W("version"), "FALSE")
Buffer == Raw(<<"N">>, W("buffer"), "ARG_BOOL")
Krb4 == Raw(<<"4", "k">>, W("krb4"), "ARG_FILENAME")

\* the option tables the revisions of the model hold
Snapshots ==
    {<<Verbose>>, <<Verbose, Data>>, <<Version>>, <<Data, Version>>,
     <<Buffer, Krb4>>, <<Verbose, Version>>}

\* lines 476-486
Normalize(as, implicit_no) ==
    LET g == group_same(simplify_desc(add_names(as), implicit_no))
    IN  IF g.raised # NoError
        THEN [raised |-> g.raised, aliases |-> <<>>]
        ELSE [raised |-> NoError,
              aliases |-> special_case_names(add___no(g.aliases))]

Init ==
    /\ pc = "loop"
    /\ raised = NoError
    /\ aliases = <<>>
    /\ IdleMain /\ IdleRuns /\ IdleStage /\ IdleExtract

\* lines 472-488: one iteration
MainLoop ==
    /\ pc = "loop"
    /\ Len(explicit_aliases_over_time) < MaxSnapshots
    /\ \E table \in Snapshots :
       \E hash \in {History[Len(explicit_aliases_over_time) + 1], IMPLICIT_NO_COMMIT} :
        /\ \A i \in 1..Len(explicit_aliases_over_time) :
               explicit_aliases_over_time[i].commit.hash # hash
        /\ LET commit == [hash |-> hash]
               flag   == IF hash = IMPLICIT_NO_COMMIT THEN TRUE ELSE after_implicit_no
               r      == Normalize(table, flag)
           IN  /\ explicit_aliases_over_time' =
                      Append(explicit_aliases_over_time,
                             [commit |-> commit, aliases |-> table])
               /\ after_implicit_no' = flag
               /\ raised' = r.raised
               /\ aliases' = r.aliases
               /\ IF r.raised # NoError
                  THEN pc' = "raised" /\ UNCHANGED aliases_over_time
                  ELSE /\ pc' = "loop"
                       /\ aliases_over_time' =
                              Append(aliases_over_time,
                                     [commit |-> commit, aliases |-> r.aliases])
    /\ UNCHANGED <<seq, runs, given, file_contents, returned, warned_repeats,
                   warnings, long_aliases, short_aliases>>

\* line 491
FindDeleted ==
    /\ pc = "loop"
    /\ LET r == find_deleted(aliases_over_time)
       IN  /\ raised' = r.raised
           /\ long_aliases' = r.long
           /\ short_aliases' = r.short
           /\ pc' = IF r.raised = NoError THEN "found" ELSE "raised"
    /\ UNCHANGED <<seq, runs, given, aliases, file_contents, returned,
                   warned_repeats, warnings, explicit_aliases_over_time,
                   aliases_over_time, after_implicit_no>>

Next == MainLoop \/ FindDeleted

Spec == Init /\ [][Next]_vars

(***************************************************************************)
(* What the timeline says about an identity key, stated on the snapshots   *)
(* themselves.  Snapshot indices are 0-based, as commit_idx is.            *)
(***************************************************************************)
Min(S) == CHOOSE x \in S : \A y \in S : x <= y
Max(S) == CHOOSE x \in S : \A y \in S : y <= x

NumSnapshots == Len(aliases_over_time)

HashAt(i) == aliases_over_time[i + 1].commit.hash

AliasesAt(i) == aliases_over_time[i + 1].aliases

AllAliases == UNION {Range(AliasesAt(i)) : i \in 0..(NumSnapshots - 1)}

LongKeys == {LongOptKey(a) : a \in AllAliases}

ShortKeys == {ShortOptKey(a) : a \in {x \in AllAliases : IsShortArg(x)}}

\* the snapshots in which a key is observed
SeenLong(k) ==
    {i \in 0..(NumSnapshots - 1) : \E a \in Range(AliasesAt(i)) : LongOptKey(a) = k}

SeenShort(k) ==
    {i \in 0..(NumSnapshots - 1) :
        \E a \in Range(AliasesAt(i)) : IsShortArg(a) /\ ShortOptKey(a) = k}

Survives(seen) == (NumSnapshots - 1) \in seen

\* removed and added again: an absence between two observations
Readded(seen) ==
    \E i, j \in seen : \E g \in (i + 1)..(j - 1) : g \notin seen

\* where a key is first met by the scan of lines 286-287: <<snapshot, place>>
FirstLong(k) ==
    LET i == Min(SeenLong(k))
    IN  <<i, Min({j \in 1..Len(AliasesAt(i)) : LongOptKey(AliasesAt(i)[j]) = k})>>

FirstShort(k) ==
    LET i == Min(SeenShort(k))
    IN  <<i, Min({j \in 1..Len(AliasesAt(i)) :
                     /\ IsShortArg(AliasesAt(i)[j])
                     /\ ShortOptKey(AliasesAt(i)[j]) = k})>>

Before(p, q) == p[1] < q[1] \/ (p[1] = q[1] /\ p[2] < q[2])

\* an entry of the long-form result shows this key
Shows(entry, k) ==
    /\ entry[1] = k.lname
    /\ entry[2].type = TypeOf(k.desc)
    /\ Has(entry[2], "name") <=> Has(k, "name")
    /\ Has(k, "name") => entry[2].name = k.name
    /\ Has(entry[2], "expand") <=> Has(k, "expand")
    /\ Has(k, "expand") => entry[2].expand = k.expand

EntriesOf(k) == {n \in 1..Len(long_aliases) : Shows(long_aliases[n], k)}

\* C2: the entry of a long-form key carries `deleted` exactly when the key
\* is absent from the last snapshot, however often it was removed and
\* added again; the hash is one of the timeline's; a key present in every
\* snapshot has the one run (0, N-1) and the lifetime (None, None).
DeletedIffAbsentFromLast ==
    pc = "found" =>
        \A k \in LongKeys :
            /\ Cardinality(EntriesOf(k)) = 1
            /\ \A n \in EntriesOf(k) :
                /\ Has(long_aliases[n][2], "deleted") <=> ~Survives(SeenLong(k))
                /\ Has(long_aliases[n][2], "deleted") =>
                       \E i \in 0..(NumSnapshots - 1) :
                           long_aliases[n][2].deleted = HashAt(i)
            /\ SeenLong(k) = 0..(NumSnapshots - 1) =>
                LET every == [i \in 1..NumSnapshots |-> i - 1]
                IN  /\ consecutive_runs(every).runs = <<<<0, NumSnapshots - 1>>>>
                    /\ Lifetimes(every, NumSnapshots) = <<<<None, None>>>>

\* witness of C2: a key that was removed, added again and is in the last
\* snapshot, next to a key that is gone
DeletedIffWitness ==
    /\ pc = "found"
    /\ \E k \in LongKeys : Readded(SeenLong(k)) /\ Survives(SeenLong(k))
    /\ \E k \in LongKeys : ~Survives(SeenLong(k))

\* the letters of the short-form table, and the keys registered for one
ShortLetters == {k[1] : k \in ShortKeys}

KeysOf(letter) == {k \in ShortKeys : k[1] = letter}

ShownLong(k) == IF k[1] = <<"N">> THEN <<NO>> \o k[2] ELSE k[2]

\* C1 as claimed: the `deleted` of a key that does not reach the last
\* snapshot is the hash of the last snapshot in which the key was seen.
DeletedAtLastSeen ==
    pc = "found" =>
        /\ \A k \in LongKeys : \A n \in EntriesOf(k) :
               ~Survives(SeenLong(k)) =>
                   /\ Has(long_aliases[n][2], "deleted")
                   /\ long_aliases[n][2].deleted = HashAt(Max(SeenLong(k)))
        /\ \A s \in DOMAIN short_aliases :
               Has(short_aliases[s], "deleted") =>
                   \E k \in KeysOf(s) :
                       /\ ~Survives(SeenShort(k))
                       /\ short_aliases[s].long = ShownLong(k)
                       /\ short_aliases[s].deleted = HashAt(Max(SeenShort(k)))

\* C1 amended: the `deleted` of a key that does not reach the last snapshot
\* is the hash of the snapshot right after the last one in which the key
\* was seen (the first snapshot of its final absence).
DeletedAtFirstAbsence ==
    pc = "found" =>
        /\ \A k \in LongKeys : \A n \in EntriesOf(k) :
               ~Survives(SeenLong(k)) =>
                   /\ Has(long_aliases[n][2], "deleted")
                   /\ long_aliases[n][2].deleted = HashAt(Max(SeenLong(k)) + 1)
        /\ \A s \in DOMAIN short_aliases :
               Has(short_aliases[s], "deleted") =>
                   \E k \in KeysOf(s) :
                       /\ ~Survives(SeenShort(k))
                       /\ short_aliases[s].long = ShownLong(k)
                       /\ short_aliases[s].deleted = HashAt(Max(SeenShort(k)) + 1)

\* witness of C1: a key with two runs, neither reaching the last snapshot,
\* in the long-form and in the short-form table
DeletedAtWitness ==
    /\ pc = "found"
    /\ \E k \in LongKeys : Readded(SeenLong(k)) /\ ~Survives(SeenLong(k))
    /\ \E s \in DOMAIN short_aliases : Has(short_aliases[s], "deleted")

\* the record a short key stands for
ShortRecord(k) ==
    IF Survives(SeenShort(k))
    THEN [long |-> ShownLong(k)]
    ELSE [long |-> ShownLong(k), deleted |-> HashAt(Max(SeenShort(k)) + 1)]

FirstOf(keys) == CHOOSE k \in keys : \A o \in keys \ {k} : Before(FirstShort(k), FirstShort(o))

LastOf(keys) == CHOOSE k \in keys : \A o \in keys \ {k} : Before(FirstShort(o), FirstShort(k))

Surviving(keys) == {k \in keys : Survives(SeenShort(k))}

\* C8 as claimed: the record of a letter is that of its first-registered
\* key, unless that one is deleted and a later key is not: then it is the
\* first later key that is not deleted; a deleted key never replaces the
\* stored record.
FirstWinsUnlessSurvivor ==
    pc = "found" =>
        /\ DOMAIN short_aliases = ShortLetters
        /\ \A s \in ShortLetters :
            /\ short_aliases[s] =
                   IF Surviving(KeysOf(s)) # {}
                   THEN ShortRecord(FirstOf(Surviving(KeysOf(s))))
                   ELSE ShortRecord(FirstOf(KeysOf(s)))
            /\ Surviving(KeysOf(s)) # {} => ~Has(short_aliases[s], "deleted")

\* C8 amended: a stored record that is marked deleted is replaced by the
\* next key registered for its letter, deleted or not, and a stored record
\* that is not deleted is never replaced: the record of a letter is that of
\* its first-registered surviving key, or of its last-registered key when
\* none survives.
SurvivorElseLastWins ==
    pc = "found" =>
        /\ DOMAIN short_aliases = ShortLetters
        /\ \A s \in ShortLetters :
            /\ short_aliases[s] =
                   IF Surviving(KeysOf(s)) # {}
                   THEN ShortRecord(FirstOf(Surviving(KeysOf(s))))
                   ELSE ShortRecord(LastOf(KeysOf(s)))
            /\ Surviving(KeysOf(s)) # {} => ~Has(short_aliases[s], "deleted")

\* witness of C8: a letter with two keys, the first-registered one deleted
\* and the other one kept
SurvivorWitness ==
    /\ pc = "found"
    /\ \E s \in ShortLetters :
        /\ Cardinality(KeysOf(s)) >= 2
        /\ ~Survives(SeenShort(FirstOf(KeysOf(s))))
        /\ ~Has(short_aliases[s], "deleted")

\* C9 as claimed: long names never decrease along the long-form result.
LnamesNonDecreasing ==
    pc = "found" =>
        \A m, n \in 1..Len(long_aliases) :
            m < n => ~StrLess(long_aliases[n][1], long_aliases[m][1])

\* C9 amended: the long-form result holds one entry per identity key, in
\* the order in which the keys are first met when the timeline is read
\* snapshot by snapshot and each snapshot in list order.
InFirstAppearanceOrder ==
    pc = "found" =>
        /\ Len(long_aliases) = Cardinality(LongKeys)
        /\ \A k1, k2 \in LongKeys :
            \A m \in EntriesOf(k1) : \A n \in EntriesOf(k2) :
                m < n => Before(FirstLong(k1), FirstLong(k2))

\* witness of C9: a result in which a long name comes after a greater one
FirstAppearanceWitness ==
    /\ pc = "found"
    /\ \E m, n \in 1..Len(long_aliases) :
        m < n /\ StrLess(long_aliases[n][1], long_aliases[m][1])

\* the snapshots read so far, and whether the cutover commit is among the
\* first n of them
NumRead == Len(explicit_aliases_over_time)

CutoverWithin(n) ==
    \E j \in 1..n : explicit_aliases_over_time[j].commit.hash = IMPLICIT_NO_COMMIT

HasNoSibling(as, lname) ==
    \E a \in Range(as) :
        a.lname = <<NO>> \o lname /\ Has(a, "expand") /\ a.expand = FALSE

FlagFollowsCutover == after_implicit_no <=> CutoverWithin(NumRead)

SiblingIffAfterCutover ==
    \A i \in 1..NumSnapshots :
        /\ aliases_over_time[i].commit = explicit_aliases_over_time[i].commit
        /\ \A r \in Range(explicit_aliases_over_time[i].aliases) :
               r.desc = "FALSE" =>
                   (HasNoSibling(aliases_over_time[i].aliases, r.lname)
                        <=> CutoverWithin(i))
        /\ \A a \in Range(aliases_over_time[i].aliases) :
               a.desc \in {"ARG_BOOL", "ARG_STRING"}

\* C10: the cutover flag is true exactly from the snapshot of the cutover
\* commit on and is never reset; a FALSE record has a "no-" sibling in its
\* normalised snapshot exactly when the snapshot is at or after the
\* cutover; every normalised record is ARG_BOOL or ARG_STRING.
CutoverDecidesSiblings ==
    /\ [](FlagFollowsCutover /\ SiblingIffAfterCutover)
    /\ [][after_implicit_no => after_implicit_no']_vars

\* witness of C10: a timeline with a FALSE record before the cutover and
\* one after it, normalised and reconciled
CutoverWitness ==
    /\ pc = "found"
    /\ \E i, j \in 1..NumSnapshots :
        /\ i < j /\ ~CutoverWithin(i) /\ CutoverWithin(j)
        /\ explicit_aliases_over_time[j].commit.hash # IMPLICIT_NO_COMMIT
        /\ \E r \in Range(explicit_aliases_over_time[i].aliases) : r.desc = "FALSE"
        /\ \E r \in Range(explicit_aliases_over_time[j].aliases) : r.desc = "FALSE"

====
